---- MODULE Spec2Model ----
(***************************************************************************)
(* Model of the ZB websocket gateway: WsConnect, the reader loop           *)
(* WsHandleData, GenerateDefaultSubscriptions and the authenticated        *)
(* request/response commands, together with the wshandler collaborators    *)
(* they call (channels, wait group, pending-response table, orderbook      *)
(* buffer).                                                                *)
(*                                                                         *)
(* Strings the code searches or splits are sequences of one-character      *)
(* strings, so that strings.Contains and strings.Split are computed.       *)
(***************************************************************************)
EXTENDS Integers, Sequences, FiniteSets, TLC

\* ------------------------------------------------------------------ bounds
\* reader goroutines that successful WsConnect calls may start
MaxReaders == 2
\* callers of authenticated commands
MaxCallers == 2
\* frames and read failures the transport delivers in one behaviour
MaxFrames == 2
\* capacity of each of the Websocket's channels
ChanCap == 1
\* length of the list of enabled pairs
MaxPairs == 2

Readers == 1..MaxReaders
Callers == 1..MaxCallers

\* longest raw frame handed to wsFixInvalidJSON
MaxFrameLen == 6

\* ------------------------------------------------------------------ strings
K_markets == <<"m", "a", "r", "k", "e", "t", "s">>
K_ticker == <<"t", "i", "c", "k", "e", "r">>
K_depth == <<"d", "e", "p", "t", "h">>
K_trades == <<"t", "r", "a", "d", "e", "s">>
Underscore == <<"_">>
PairBtc == <<"b", "t", "c">>

\* strings.Contains(s, sub)
Contains(s, sub) ==
    \E i \in 1..(Len(s) - Len(sub) + 1) : SubSeq(s, i, i + Len(sub) - 1) = sub

\* strings.Split(s, "_")[0]: the part of s before its first underscore
SplitFirst(s) ==
    IF \E i \in 1..Len(s) : s[i] = "_"
    THEN LET k == CHOOSE i \in 1..Len(s) :
                     s[i] = "_" /\ \A j \in 1..(i - 1) : s[j] # "_"
         IN SubSeq(s, 1, k - 1)
    ELSE s

\* ------------------------------------------------------------------ frames
\* A frame after wsFixInvalidJSON: whether json.Unmarshal into Generic
\* succeeds (valid), the envelope fields No, Code and Channel, whether the
\* topic's own json.Unmarshal succeeds (typed), and the topic payloads.
\* A depth level is <<price, amount>>, each a decoded JSON value: a number
\* (Num) or a value of another type (NotNum).
Num(x) == [isNum |-> TRUE, val |-> x]
NotNum == [isNum |-> FALSE, val |-> 0]
Level(price, amount) == <<Num(price), Num(amount)>>

Frame(valid, no, code, channel, typed, asks, bids, trades) ==
    [valid |-> valid, No |-> no, Code |-> code, Channel |-> channel,
     typed |-> typed, Asks |-> asks, Bids |-> bids, Trades |-> trades]

Trade(price, amount, side) == [Price |-> price, Amount |-> amount, TradeType |-> side]

ChTicker == PairBtc \o Underscore \o K_ticker
ChDepth == PairBtc \o Underscore \o K_depth
ChTrades == PairBtc \o Underscore \o K_trades
ChOther == <<"p", "o", "n", "g">>

ReplyFrames ==
    { Frame(TRUE, n, c, <<>>, TRUE, <<>>, <<>>, <<>>) :
        n \in 1..MaxCallers, c \in {1000, 1001} }

StreamFrames ==
    { Frame(FALSE, 0, 0, <<>>, FALSE, <<>>, <<>>, <<>>),
      Frame(TRUE, 0, 1001, ChTicker, TRUE, <<>>, <<>>, <<>>),
      Frame(TRUE, 0, 0, ChOther, TRUE, <<>>, <<>>, <<>>),
      Frame(TRUE, 0, 1000, K_markets, TRUE, <<>>, <<>>, <<>>),
      Frame(TRUE, 0, 0, ChTicker, TRUE, <<>>, <<>>, <<>>),
      Frame(TRUE, 0, 0, ChTicker, FALSE, <<>>, <<>>, <<>>),
      Frame(TRUE, 0, 0, ChDepth, TRUE, <<Level(2, 1)>>, <<Level(1, 1)>>, <<>>),
      Frame(TRUE, 0, 0, ChDepth, TRUE, <<Level(2, 1), Level(2, 3)>>, <<Level(1, 1)>>, <<>>),
      Frame(TRUE, 0, 0, ChDepth, TRUE, <<<<NotNum, Num(1)>>>>, <<>>, <<>>),
      Frame(TRUE, 0, 0, ChTrades, TRUE, <<>>, <<>>, <<>>),
      Frame(TRUE, 0, 0, ChTrades, TRUE, <<>>, <<>>,
            <<Trade(1, 1, "buy"), Trade(2, 1, "sell")>>) }

\* channels that contain more than one of the topic substrings
ChDepthTicker == PairBtc \o Underscore \o K_depth \o Underscore \o K_ticker
ChTradesDepth == PairBtc \o Underscore \o K_trades \o Underscore \o K_depth
ChMarketsTrades == K_markets \o Underscore \o K_trades

\* further stream frames: status codes on an emitting topic, channels matching
\* several topics, trade batches of one and of three, a second snapshot and a
\* snapshot repeating a price on the bid side
TopicFrames ==
    { Frame(TRUE, 0, 1000, ChTicker, TRUE, <<>>, <<>>, <<>>),
      Frame(TRUE, 0, 1, ChTicker, TRUE, <<>>, <<>>, <<>>),
      Frame(TRUE, 0, 0, ChDepthTicker, TRUE, <<Level(2, 1)>>, <<>>, <<>>),
      Frame(TRUE, 0, 0, ChTradesDepth, TRUE, <<Level(4, 1)>>, <<>>,
            <<Trade(1, 1, "buy")>>),
      Frame(TRUE, 0, 0, ChMarketsTrades, TRUE, <<>>, <<>>, <<Trade(1, 1, "buy")>>),
      Frame(TRUE, 0, 0, ChTrades, TRUE, <<>>, <<>>, <<Trade(3, 2, "sell")>>),
      Frame(TRUE, 0, 0, ChTrades, TRUE, <<>>, <<>>,
            <<Trade(1, 1, "buy"), Trade(2, 1, "sell"), Trade(3, 2, "buy")>>),
      Frame(TRUE, 0, 0, ChDepth, TRUE, <<Level(3, 1)>>, <<Level(1, 2)>>, <<>>),
      Frame(TRUE, 0, 0, ChDepth, TRUE, <<Level(3, 1)>>, <<Level(1, 1), Level(1, 2)>>, <<>>) }

\* replies to the first command sent, with an absent, the reserved and another
\* status code, and one that does not parse into the command's response type
CodedReplyFrames ==
    { Frame(TRUE, 1, c, <<>>, TRUE, <<>>, <<>>, <<>>) : c \in {0, 1000, 1001} }
    \cup { Frame(TRUE, 1, 1000, <<>>, FALSE, <<>>, <<>>, <<>>) }

\* ticker frames with an absent, the reserved and other status codes
CodedStreamFrames ==
    { Frame(TRUE, 0, c, ChTicker, TRUE, <<>>, <<>>, <<>>) : c \in {0, 1000, 1001, 1} }

\* frames in which the unmarshal error, a correlation id, a status code and
\* a channel come together
PrecedenceFrames ==
    { Frame(FALSE, 1, 1001, ChTicker, FALSE, <<>>, <<>>, <<>>),
      Frame(TRUE, 1, 1001, ChTicker, TRUE, <<>>, <<>>, <<>>),
      Frame(TRUE, 1, 0, ChDepth, TRUE, <<Level(2, 1)>>, <<Level(1, 1)>>, <<>>),
      Frame(TRUE, 0, 1001, ChTicker, TRUE, <<>>, <<>>, <<>>),
      Frame(TRUE, 0, 1000, ChTicker, TRUE, <<>>, <<>>, <<>>),
      Frame(TRUE, 0, 0, ChOther, TRUE, <<>>, <<>>, <<>>),
      Frame(TRUE, 0, 0, ChDepth, TRUE, <<Level(2, 1)>>, <<Level(1, 1)>>, <<>>) }

\* ------------------------------------------------------------------ JSON repair
\* The bytes a raw frame is made of: the quotation mark, the brackets of the
\* pattern, a line feed (the one character `.` does not match) and one other
\* byte.
Quote == "\""
Newline == "\n"
Alphabet == {Quote, "[", "]", "{", "}", "a", Newline}

RawFrames == UNION {[1..n -> Alphabet] : n \in 0..MaxFrameLen}

\* (\"\[|\"\{) and (\]\"|\}\")
OpenersAnyQuoted == {<<Quote, ch>> : ch \in Alphabet}
Openers == {<<Quote, "[">>, <<Quote, "{">>}
Closers == {<<"]", Quote>>, <<"}", Quote>>}

\* `.` matches every character but the line feed
Dot(ch) == ch # Newline

\* the positions j at which a closer starts so that the pattern matches from
\* the opener at i: (.*) covers i+2 .. j-1
MatchEnds(s, i) ==
    {j \in (i + 2)..(Len(s) - 1) :
        /\ <<s[j], s[j + 1]>> \in Closers
        /\ \A k \in (i + 2)..(j - 1) : Dot(s[k])}

MatchStarts(s) ==
    {i \in 1..(Len(s) - 1) : <<s[i], s[i + 1]>> \in Openers /\ MatchEnds(s, i) # {}}

\* regexChecker.Find(json): the leftmost match, (.*) taking as much as it
\* can; <<>> stands for nil, a match being at least four bytes long
RegexFind(s) ==
    IF MatchStarts(s) = {} THEN <<>>
    ELSE LET i == CHOOSE x \in MatchStarts(s) : \A y \in MatchStarts(s) : x <= y
             j == CHOOSE x \in MatchEnds(s, i) : \A y \in MatchEnds(s, i) : y <= x
         IN  SubSeq(s, i, j + 1)

\* strings.Index(s, old), 0 when absent
Index(s, old) ==
    LET at == {i \in 1..(Len(s) - Len(old) + 1) : SubSeq(s, i, i + Len(old) - 1) = old}
    IN  IF at = {} THEN 0 ELSE CHOOSE x \in at : \A y \in at : x <= y

\* strings.Replace(s, old, new, 1)
ReplaceFirst(s, old, new) ==
    LET i == Index(s, old)
    IN  IF i = 0 THEN s
        ELSE SubSeq(s, 1, i - 1) \o new \o SubSeq(s, i + Len(old), Len(s))

wsFixInvalidJSON(json) ==
    LET matchingResults == RegexFind(json)
    IN  IF matchingResults = <<>> THEN json
        ELSE LET capturedInvalidZBJSON == ReplaceFirst(matchingResults, <<Quote>>, <<>>)
                 fixedJSON == SubSeq(capturedInvalidZBJSON, 1,
                                     Len(capturedInvalidZBJSON) - 1)
             IN  ReplaceFirst(json, matchingResults, fixedJSON)

\* ------------------------------------------------------------------ klines
\* a kline is asked for by pair and interval
Klines == [pair : {"BTCUSD", "ETHUSD"}, interval : {"1m", "1h"}]

Exchanges == {"WEX", "LocalBitcoins"}

\* common.ErrFunctionNotSupported, and the nil error
ErrFunctionNotSupported == "function not supported"
NilError == "nil"

\* (b *WEX) GetKlines: var klines []*kline.Kline is nil when returned
WEXGetKlinesReturnsArg(arg) == [klines |-> <<arg>>, err |-> NilError]
WEXGetKlines(arg) == [klines |-> <<>>, err |-> ErrFunctionNotSupported]

\* (b *LocalBitcoins) GetKlines
LocalBitcoinsGetKlines(arg) == [klines |-> <<>>, err |-> ErrFunctionNotSupported]

\* ------------------------------------------------------------------ classifier
\* result.Code > 0 && result.Code != 1000
CodeIsErrorAnyPositive(code) == code > 0
CodeIsError(code) == code > 0 /\ code # 1000

\* The id a reply frame is filed under: AddResponseWithID(result.No, fixedJSON)
ResponseId(frame) == frame.No

\* depth.Asks[i][1].(float64), depth.Asks[i][0].(float64): the unchecked type
\* assertions succeed only when both entries of every level are numbers
LevelsAreNumbers(levels) ==
    \A i \in 1..Len(levels) :
        /\ Len(levels[i]) >= 2
        /\ levels[i][1].isNum
        /\ levels[i][2].isNum

\* orderbook.Item list built from the wire levels: Price = level[0], Amount = level[1]
Items(levels) ==
    [i \in 1..Len(levels) |-> [Price |-> levels[i][1].val, Amount |-> levels[i][2].val]]

HasDuplicatePrice(items) ==
    \E i, j \in 1..Len(items) : i # j /\ items[i].Price = items[j].Price

\* Orderbook.LoadSnapshot: rejects a book with a repeated price on one side
LoadSnapshotNeverFails(ob) == FALSE
LoadSnapshotFails(ob) == HasDuplicatePrice(ob.Asks) \/ HasDuplicatePrice(ob.Bids)

ErrorEvent(msg) == [kind |-> "error", msg |-> msg]

\* What the loop does with a frame whose result.No > 0
ReplyOutcome(frame) == [kind |-> "resolve", id |-> ResponseId(frame), data |-> frame]

\* What the loop sends after LoadSnapshot: its error, or the update that
\* names the book's pair and asset class
AfterLoadAlwaysUpdate(ob, failed) ==
    [kind |-> "orderbook", Pair |-> ob.Pair, Asset |-> ob.AssetType]
AfterLoad(ob, failed) ==
    IF failed THEN ErrorEvent("snapshot")
    ELSE [kind |-> "orderbook", Pair |-> ob.Pair, Asset |-> ob.AssetType]

\* The cases of the switch on result.Channel, in the order they are written
TopicOrderDepthFirst == <<K_depth, K_markets, K_ticker, K_trades>>
TopicOrder == <<K_markets, K_ticker, K_depth, K_trades>>

\* The case the switch takes: the first whose substring the channel contains,
\* <<>> for the default case
Topic(channel) ==
    LET hits == {i \in 1..Len(TopicOrder) : Contains(channel, TopicOrder[i])}
    IN IF hits = {} THEN <<>>
       ELSE TopicOrder[CHOOSE i \in hits : \A j \in hits : i <= j]

\* t := trades.Data[len(trades.Data)-1]
MostRecentIsFirst(trades) == trades[1]
MostRecent(trades) == trades[Len(trades)]

\* The body of the reader loop after the traffic alert: what one frame leads
\* to. kind is "emit" (a value for DataHandler), "resolve" (a reply filed by
\* id), "load" (a snapshot to load and then announce), "next" (nothing emitted)
\* or "panic" (a failed type assertion).
\* The tests the loop makes on a frame before the switch on its channel, in
\* the order they are written: the unmarshal error, result.No > 0, the code
PrecedenceCodeFirst(frame) ==
    IF ~frame.valid THEN "unparseable"
    ELSE IF CodeIsError(frame.Code) THEN "error"
    ELSE IF frame.No > 0 THEN "reply"
    ELSE "stream"
Precedence(frame) ==
    IF ~frame.valid THEN "unparseable"
    ELSE IF frame.No > 0 THEN "reply"
    ELSE IF CodeIsError(frame.Code) THEN "error"
    ELSE "stream"

Dispatch(frame) ==
    IF Precedence(frame) = "unparseable"
        THEN [kind |-> "emit", ev |-> ErrorEvent("unmarshal")]
    ELSE IF Precedence(frame) = "reply" THEN ReplyOutcome(frame)
    ELSE IF Precedence(frame) = "error"
        THEN [kind |-> "emit", ev |-> ErrorEvent("request failed")]
    ELSE IF Topic(frame.Channel) = K_markets
        THEN IF frame.typed THEN [kind |-> "next"]
             ELSE [kind |-> "emit", ev |-> ErrorEvent("unmarshal")]
    ELSE IF Topic(frame.Channel) = K_ticker
        THEN IF frame.typed
             THEN [kind |-> "emit",
                   ev |-> [kind |-> "ticker", Pair |-> SplitFirst(frame.Channel)]]
             ELSE [kind |-> "emit", ev |-> ErrorEvent("unmarshal")]
    ELSE IF Topic(frame.Channel) = K_depth
        THEN IF ~frame.typed THEN [kind |-> "emit", ev |-> ErrorEvent("unmarshal")]
             ELSE IF ~(LevelsAreNumbers(frame.Asks) /\ LevelsAreNumbers(frame.Bids))
                 THEN [kind |-> "panic"]
             ELSE [kind |-> "load",
                   ob |-> [Pair |-> SplitFirst(frame.Channel), AssetType |-> "spot",
                           Asks |-> Items(frame.Asks), Bids |-> Items(frame.Bids)]]
    ELSE IF Topic(frame.Channel) = K_trades
        THEN IF ~frame.typed THEN [kind |-> "emit", ev |-> ErrorEvent("unmarshal")]
             ELSE IF Len(frame.Trades) = 0 THEN [kind |-> "next"]
             ELSE LET t == MostRecent(frame.Trades)
                  IN [kind |-> "emit",
                      ev |-> [kind |-> "trade", Pair |-> SplitFirst(frame.Channel),
                              Price |-> t.Price, Amount |-> t.Amount,
                              Side |-> t.TradeType]]
    ELSE [kind |-> "emit", ev |-> ErrorEvent("unhandled websocket response")]

\* Where the loop goes after the read-failure report: return
AfterReadErrorContinues == "select"
AfterReadError == "failed"

\* Where the loop goes after a reply frame is filed: continue
AfterReplyReturns == "stopped"
AfterReply == "select"

\* Where the loop goes after an error local to one frame: continue
AfterFrameErrorReturns == "stopped"
AfterFrameError == "select"

\* !z.Websocket.IsEnabled() || !z.IsEnabled()
ConnectRefusedBoth(ws, ex) == ~ws /\ ~ex
ConnectRefused(ws, ex) == ~ws \/ ~ex

\* !z.GetAuthenticatedAPISupport(exchange.WebsocketAuthentication): the first
\* statement of every authenticated command
AuthRefusedNever(auth) == FALSE
AuthRefused(auth) == ~auth

\* ------------------------------------------------------------------ subscriptions
LowerChar(c) ==
    CASE c = "B" -> "b" [] c = "T" -> "t" [] c = "C" -> "c" [] c = "E" -> "e"
      [] c = "H" -> "h" [] c = "U" -> "u" [] c = "S" -> "s" [] c = "D" -> "d"
      [] OTHER -> c

LowerStr(s) == [i \in 1..Len(s) |-> LowerChar(s[i])]

\* currency.Pair: Lower() and String()
PairLower(p) == [p EXCEPT !.Base = LowerStr(p.Base), !.Quote = LowerStr(p.Quote)]
PairString(p) == p.Base \o p.Delimiter \o p.Quote

BTCUSD == [Base |-> <<"B", "T", "C">>, Quote |-> <<"U", "S", "D">>, Delimiter |-> <<"_">>]
ETHUSD == [Base |-> <<"E", "T", "H">>, Quote |-> <<"U", "S", "D">>, Delimiter |-> <<"-">>]

\* BTCUSD as configured in lower case with another delimiter
BtcUsdDash == [Base |-> <<"b", "t", "c">>, Quote |-> <<"u", "s", "d">>, Delimiter |-> <<"-">>]

\* the lists z.GetEnabledPairs(asset.Spot) may return
PairLists ==
    UNION { [1..n -> {BTCUSD, ETHUSD, BtcUsdDash}] : n \in 0..MaxPairs }

\* channels := []string{"%s_ticker", "%s_depth", "%s_trades"}
TopicSuffixes == <<Underscore \o K_ticker, Underscore \o K_depth, Underscore \o K_trades>>

\* The list GenerateDefaultSubscriptions builds: the market-wide channel, then
\* for each topic, in order, one entry per enabled pair with its delimiter
\* cleared and its symbols lower-cased.
DefaultSubscriptions(enabled) ==
    LET n == Len(enabled)
        cleared(j) == [enabled[j] EXCEPT !.Delimiter = <<>>]
        entry(k) ==
            LET i == ((k - 1) \div n) + 1
                j == ((k - 1) % n) + 1
            IN [Channel |-> PairString(PairLower(cleared(j))) \o TopicSuffixes[i],
                Currency |-> PairLower(cleared(j))]
    IN <<[Channel |-> K_markets]>> \o [k \in 1..(Len(TopicSuffixes) * n) |-> entry(k)]

\* Websocket.SubscribeToChannels: queues the subscriptions not queued already
RECURSIVE SubscribeToChannels(_, _)
SubscribeToChannels(queued, subs) ==
    IF subs = <<>> THEN queued
    ELSE IF \E i \in 1..Len(queued) : queued[i] = Head(subs)
        THEN SubscribeToChannels(queued, Tail(subs))
        ELSE SubscribeToChannels(Append(queued, Head(subs)), Tail(subs))

\* ------------------------------------------------------------------ commands
\* request.Channel of wsGetSubUserList and of wsGetAccountInfoRequest
CommandChannels == <<"getSubUserList", "getaccountinfo">>

\* the command caller c issues
CommandOf(c) == CommandChannels[((c - 1) % Len(CommandChannels)) + 1]

\* A float64 that json.Marshal rejects
NaN == [isNum |-> FALSE, val |-> 0]

\* json.Marshal(request) succeeds: no float field holds NaN or an infinity
Serializable(request) ==
    /\ ("Amount" \in DOMAIN request) => request.Amount.isNum
    /\ ("Price" \in DOMAIN request) => request.Price.isNum

\* wsGenerateSignature: the HMAC-MD5, keyed by the SHA1 hex of the secret, of
\* the serialized request; the empty string when json.Marshal fails
wsGenerateSignature(request, secret) ==
    IF ~Serializable(request) THEN <<>>
    ELSE <<"hmac-md5", <<"sha1-hex", secret>>, request>>

\* The request of an authenticated command, as written to the wire: the
\* fields are set, the id last of them, and then the signature
SignedRequestSignsFirst(channel, key, secret, no) ==
    LET request == [Channel |-> channel, Event |-> "addChannel",
                    Accesskey |-> key, No |-> 0, Sign |-> ""]
    IN [request EXCEPT !.Sign = wsGenerateSignature(request, secret), !.No = no]
SignedRequest(channel, key, secret, no) ==
    LET request == [Channel |-> channel, Event |-> "addChannel",
                    Accesskey |-> key, No |-> no, Sign |-> ""]
    IN [request EXCEPT !.Sign = wsGenerateSignature(request, secret)]

\* The request of wsSubmitOrder, as handed to SendMessageReturnResponse
SignedOrder(amount, price, key, secret, no) ==
    LET request == [Amount |-> amount, Price |-> price, TradeType |-> 1, No |-> no,
                    Channel |-> PairBtc \o <<"_", "o", "r", "d", "e", "r">>,
                    Event |-> "addChannel", Accesskey |-> key, Sign |-> ""]
    IN [request EXCEPT !.Sign = wsGenerateSignature(request, secret)]

\* the account secrets z.API.Credentials.Secret may hold
Secrets == {"secret", "other"}

\* unsigned requests a caller may ask a signature for
UnsignedRequests ==
    { [Channel |-> ch, Event |-> "addChannel", Accesskey |-> "key", No |-> no,
       Sign |-> ""] : ch \in {"getSubUserList", "getaccountinfo"}, no \in {1} }

\* What a command returns for the reply resp that SendMessageReturnResponse
\* hands it: json.Unmarshal into the command's response type, then the check
\* of response.Code
CommandResult(resp) ==
    [kind |-> "reply", frame |-> resp, err |-> ~resp.typed \/ CodeIsError(resp.Code)]

\* The id handed to SendMessageReturnResponse next to the request
WaitIdWrong(request) == 1
WaitId(request) == request.No

\* ------------------------------------------------------------------ state
VARIABLES
    wsEnabled,           \* z.Websocket.IsEnabled()
    exEnabled,           \* z.IsEnabled()
    authEnabled,         \* z.GetAuthenticatedAPISupport(WebsocketAuthentication)
    enabledPairs,        \* z.GetEnabledPairs(asset.Spot)
    dialed,              \* TRUE once WebsocketConn.Dial has been called
    inbound,             \* the frames the venue may send on the connection
    connRet,             \* what the last WsConnect call returned
    channelsToSubscribe, \* subscriptions queued by SubscribeToChannels
    rpc,                 \* where each reader goroutine is
    cur,                 \* what a reader holds: the frame just read, or the
                         \* value it is about to send
    reported,            \* read failures each reader has put on ReadMessageErrors
    wg,                  \* counter of Websocket.Wg
    shutdownC,           \* TRUE once Websocket.ShutdownC is closed
    joined,              \* TRUE once the shutdown's Wg.Wait() has returned
    dataHandler,         \* values waiting in Websocket.DataHandler
    trafficAlert,        \* values waiting in Websocket.TrafficAlert
    readMessageErrors,   \* values waiting in Websocket.ReadMessageErrors
    consuming,           \* FALSE once the channels' consumer has stopped
    nreads,              \* ReadMessage calls that have returned
    book,                \* the orderbook buffer, by pair
    cpc,                 \* where each caller of an authenticated command is
    cid,                 \* the id each caller waits on
    cres,                \* what each caller's command returned
    wire,                \* the request each caller wrote to the connection
    nextId,              \* next value of GenerateMessageID
    ndeliv,              \* replies handed to each caller
    dropped,             \* <<id, when>> of each reply frame no caller was
                         \* registered for: "late" when the caller of id had
                         \* returned, "unsolicited" when id was never waited on
    frameErrors,         \* errors local to one frame sent on DataHandler so far
    held,                \* per reader, the frame of its current iteration: its
                         \* receipt number seq, its bytes frame (once the loop
                         \* has looked at them) and the values sent on
                         \* DataHandler for it
    log,                 \* receipt numbers of the frames, in the order in which
                         \* something was emitted or resolved for them
    raw,                 \* resp.Raw, the bytes of a frame as read
    repaired,            \* what wsFixInvalidJSON returned for raw, once called
    venue,               \* the klines that exist at the exchange
    kreq,                \* the exchange GetKlines is called on and its arg
    kret                 \* what GetKlines returned, once called

vars == <<wsEnabled, exEnabled, authEnabled, enabledPairs, inbound, dialed, connRet,
          channelsToSubscribe, rpc, cur, reported, wg, shutdownC, joined,
          dataHandler, trafficAlert, readMessageErrors, consuming, nreads, book,
          cpc, cid, cres, wire, nextId, ndeliv, dropped, frameErrors,
          held, log, raw, repaired, venue, kreq, kret>>

configVars == <<wsEnabled, exEnabled, authEnabled, enabledPairs, inbound>>
connVars == <<dialed, connRet, channelsToSubscribe>>
readerVars == <<rpc, cur, reported, nreads, book, frameErrors>>
chanVars == <<dataHandler, trafficAlert, readMessageErrors>>
callerVars == <<cpc, cid, cres, wire, nextId, ndeliv>>
\* the record of what was done for which frame; written only where the
\* reader loop is traced (SpecFrames)
histVars == <<held, log>>
\* the bytes of one frame and their repair; written only where frames are
\* modelled byte by byte (SpecRepair)
repairVars == <<raw, repaired>>

NotRepaired == [done |-> FALSE, json |-> <<>>]

\* the klines at an exchange and one GetKlines call; written only where
\* GetKlines is called (SpecKlines)
klineVars == <<venue, kreq, kret>>

NotCalled == [done |-> FALSE, klines |-> <<>>, err |-> NilError]

None == [kind |-> "none"]

NotHeld == [seq |-> 0, frame |-> None, sent |-> <<>>]

Terminal == {"stopped", "failed", "panicked"}
Running == {"spawned", "select", "read", "reportErr", "alert", "emit"}

\* An unrecovered panic in the reader goroutine ends the program
Crashed == \E r \in Readers : rpc[r] = "panicked"

\* the caller registered for id, if one is waiting
Waiter(id) == {c \in Callers : cpc[c] = "waiting" /\ cid[c] = id}

\* The state after construction, before any call
Constructed ==
    /\ dialed = FALSE
    /\ connRet = "none"
    /\ channelsToSubscribe = <<>>
    /\ rpc = [r \in Readers |-> "idle"]
    /\ cur = [r \in Readers |-> None]
    /\ reported = [r \in Readers |-> 0]
    /\ wg = 0
    /\ shutdownC = FALSE
    /\ joined = FALSE
    /\ dataHandler = 0
    /\ trafficAlert = 0
    /\ readMessageErrors = 0
    /\ consuming = TRUE
    /\ nreads = 0
    /\ book = <<>>
    /\ cpc = [c \in Callers |-> "idle"]
    /\ cid = [c \in Callers |-> 0]
    /\ cres = [c \in Callers |-> None]
    /\ wire = [c \in Callers |-> None]
    /\ nextId = 1
    /\ ndeliv = [c \in Callers |-> 0]
    /\ dropped = {}
    /\ frameErrors = 0
    /\ held = [r \in Readers |-> NotHeld]
    /\ log = <<>>
    /\ repaired = NotRepaired
    /\ kret = NotCalled

\* ------------------------------------------------------------------ WsConnect
\* WsConnect with the websocket or the exchange not enabled
WsConnectNotEnabled ==
    /\ ~shutdownC
    /\ ConnectRefused(wsEnabled, exEnabled)
    /\ connRet' = "notEnabled"
    /\ UNCHANGED <<configVars, dialed, channelsToSubscribe, readerVars, wg, shutdownC,
                   joined, chanVars, consuming, callerVars, dropped>>

\* WsConnect whose Dial fails
WsConnectDialFails ==
    /\ ~shutdownC
    /\ ~ConnectRefused(wsEnabled, exEnabled)
    /\ dialed' = TRUE
    /\ connRet' = "dialErr"
    /\ UNCHANGED <<configVars, channelsToSubscribe, readerVars, wg, shutdownC,
                   joined, chanVars, consuming, callerVars, dropped>>

\* WsConnect whose Dial succeeds: go z.WsHandleData(), then
\* z.GenerateDefaultSubscriptions()
WsConnectOk ==
    /\ ~shutdownC
    /\ ~ConnectRefused(wsEnabled, exEnabled)
    /\ \E r \in Readers :
        /\ rpc[r] = "idle"
        /\ \A q \in Readers : q < r => rpc[q] # "idle"
        /\ rpc' = [rpc EXCEPT ![r] = "spawned"]
    /\ dialed' = TRUE
    /\ connRet' = "ok"
    /\ channelsToSubscribe' =
           SubscribeToChannels(channelsToSubscribe, DefaultSubscriptions(enabledPairs))
    /\ UNCHANGED <<configVars, cur, reported, nreads, book, frameErrors, wg, shutdownC,
                   joined, chanVars, consuming, callerVars, dropped>>

\* ------------------------------------------------------------------ WsHandleData
\* z.Websocket.Wg.Add(1)
ReaderRegister(r) ==
    /\ rpc[r] = "spawned"
    /\ rpc' = [rpc EXCEPT ![r] = "select"]
    /\ wg' = wg + 1
    /\ UNCHANGED <<configVars, connVars, cur, reported, nreads, book, frameErrors,
                   shutdownC, joined, chanVars, consuming, callerVars, dropped>>

\* select: case <-z.Websocket.ShutdownC returns (the deferred Wg.Done runs),
\* default goes on to ReadMessage
ReaderSelect(r) ==
    /\ rpc[r] = "select"
    /\ rpc' = [rpc EXCEPT ![r] = IF shutdownC THEN "stopped" ELSE "read"]
    /\ wg' = IF shutdownC THEN wg - 1 ELSE wg
    /\ UNCHANGED <<configVars, connVars, cur, reported, nreads, book, frameErrors,
                   shutdownC, joined, chanVars, consuming, callerVars, dropped>>

\* z.WebsocketConn.ReadMessage() returns a frame. The loop looks at the
\* frame's bytes only after the traffic alert, so the bytes are drawn there.
ReaderReadFrame(r) ==
    /\ rpc[r] = "read"
    /\ nreads < MaxFrames
    /\ rpc' = [rpc EXCEPT ![r] = "alert"]
    /\ cur' = [cur EXCEPT ![r] = [kind |-> "frame"]]
    /\ nreads' = nreads + 1
    /\ UNCHANGED <<configVars, connVars, reported, book, frameErrors, wg, shutdownC,
                   joined, chanVars, consuming, callerVars, dropped>>

\* z.WebsocketConn.ReadMessage() returns an error
ReaderReadFails(r) ==
    /\ rpc[r] = "read"
    /\ nreads < MaxFrames
    /\ rpc' = [rpc EXCEPT ![r] = "reportErr"]
    /\ cur' = [cur EXCEPT ![r] = ErrorEvent("read")]
    /\ nreads' = nreads + 1
    /\ UNCHANGED <<configVars, connVars, reported, book, frameErrors, wg, shutdownC,
                   joined, chanVars, consuming, callerVars, dropped>>

\* z.Websocket.ReadMessageErrors <- err; return
ReaderReportErr(r) ==
    /\ rpc[r] = "reportErr"
    /\ readMessageErrors < ChanCap
    /\ readMessageErrors' = readMessageErrors + 1
    /\ reported' = [reported EXCEPT ![r] = @ + 1]
    /\ rpc' = [rpc EXCEPT ![r] = AfterReadError]
    /\ cur' = [cur EXCEPT ![r] = None]
    /\ wg' = IF AfterReadError \in Terminal THEN wg - 1 ELSE wg
    /\ UNCHANGED <<configVars, connVars, nreads, book, frameErrors, shutdownC, joined,
                   dataHandler, trafficAlert, consuming, callerVars, dropped>>

\* WebsocketConn.AddResponseWithID(id, data): hands data to the caller
\* registered for id, once; without such a caller it does nothing
AddResponseWithID(id, data) ==
    IF Waiter(id) # {}
    THEN LET c == CHOOSE w \in Waiter(id) : TRUE
         IN /\ cpc' = [cpc EXCEPT ![c] = "done"]
            /\ cres' = [cres EXCEPT ![c] = CommandResult(data)]
            /\ ndeliv' = [ndeliv EXCEPT ![c] = @ + 1]
            /\ UNCHANGED <<cid, wire, nextId, dropped>>
    ELSE /\ dropped' = dropped \cup
                {<<id, IF \E c \in Callers : cid[c] = id /\ cpc[c] = "done"
                       THEN "late" ELSE "unsolicited">>}
         /\ UNCHANGED callerVars

\* z.Websocket.TrafficAlert <- struct{}{}, then the frame f is repaired,
\* parsed and classified, up to the next channel send or the next loop
\* iteration
ReaderAlertOn(r, f) ==
    /\ rpc[r] = "alert"
    /\ trafficAlert < ChanCap
    /\ trafficAlert' = trafficAlert + 1
    /\ LET o == Dispatch(f)
       IN CASE o.kind = "emit" ->
                 /\ rpc' = [rpc EXCEPT ![r] = "emit"]
                 /\ cur' = [cur EXCEPT ![r] = o.ev]
                 /\ UNCHANGED <<book, wg, callerVars, dropped>>
            [] o.kind = "next" ->
                 /\ rpc' = [rpc EXCEPT ![r] = "select"]
                 /\ cur' = [cur EXCEPT ![r] = None]
                 /\ UNCHANGED <<book, wg, callerVars, dropped>>
            [] o.kind = "panic" ->
                 /\ rpc' = [rpc EXCEPT ![r] = "panicked"]
                 /\ cur' = [cur EXCEPT ![r] = None]
                 /\ wg' = wg - 1
                 /\ UNCHANGED <<book, callerVars, dropped>>
            [] o.kind = "load" ->
                 /\ rpc' = [rpc EXCEPT ![r] = "emit"]
                 /\ cur' = [cur EXCEPT ![r] = AfterLoad(o.ob, LoadSnapshotFails(o.ob))]
                 /\ IF LoadSnapshotFails(o.ob)
                    THEN book' = book
                    ELSE book' = [p \in DOMAIN book \cup {o.ob.Pair} |->
                                         IF p = o.ob.Pair THEN o.ob ELSE book[p]]
                 /\ UNCHANGED <<wg, callerVars, dropped>>
            [] o.kind = "resolve" ->
                 /\ rpc' = [rpc EXCEPT ![r] = AfterReply]
                 /\ cur' = [cur EXCEPT ![r] = None]
                 /\ AddResponseWithID(o.id, o.data)
                 /\ wg' = IF AfterReply \in Terminal THEN wg - 1 ELSE wg
                 /\ book' = book
    /\ UNCHANGED <<configVars, connVars, reported, nreads, frameErrors, shutdownC,
                   joined, dataHandler, readMessageErrors, consuming>>

ReaderAlert(r) == \E f \in inbound : ReaderAlertOn(r, f)

\* z.Websocket.DataHandler <- cur[r]; after an error the loop continues
ReaderEmit(r) ==
    /\ rpc[r] = "emit"
    /\ dataHandler < ChanCap
    /\ dataHandler' = dataHandler + 1
    /\ LET next == IF cur[r].kind = "error" THEN AfterFrameError ELSE "select"
       IN /\ rpc' = [rpc EXCEPT ![r] = next]
          /\ wg' = IF next \in Terminal THEN wg - 1 ELSE wg
    /\ cur' = [cur EXCEPT ![r] = None]
    /\ frameErrors' = IF cur[r].kind = "error" THEN frameErrors + 1 ELSE frameErrors
    /\ UNCHANGED <<configVars, connVars, reported, nreads, book, shutdownC, joined,
                   trafficAlert, readMessageErrors, consuming, callerVars, dropped>>

ReaderStep(r) ==
    \/ ReaderRegister(r)
    \/ ReaderSelect(r)
    \/ ReaderReportErr(r)
    \/ ReaderAlert(r)
    \/ ReaderEmit(r)

\* ------------------------------------------------------------------ consumers
\* The receiver of DataHandler takes a value
ConsumeData ==
    /\ consuming
    /\ dataHandler > 0
    /\ dataHandler' = dataHandler - 1
    /\ UNCHANGED <<configVars, connVars, readerVars, wg, shutdownC, joined,
                   trafficAlert, readMessageErrors, consuming, callerVars, dropped>>

\* The receiver of TrafficAlert takes a value
ConsumeAlert ==
    /\ consuming
    /\ trafficAlert > 0
    /\ trafficAlert' = trafficAlert - 1
    /\ UNCHANGED <<configVars, connVars, readerVars, wg, shutdownC, joined,
                   dataHandler, readMessageErrors, consuming, callerVars, dropped>>

\* The receiver of ReadMessageErrors takes a value
ConsumeReadError ==
    /\ consuming
    /\ readMessageErrors > 0
    /\ readMessageErrors' = readMessageErrors - 1
    /\ UNCHANGED <<configVars, connVars, readerVars, wg, shutdownC, joined,
                   dataHandler, trafficAlert, consuming, callerVars, dropped>>

\* The receiver stops reading the channels
ConsumerStops ==
    /\ consuming
    /\ consuming' = FALSE
    /\ UNCHANGED <<configVars, connVars, readerVars, wg, shutdownC, joined,
                   chanVars, callerVars, dropped>>

\* ------------------------------------------------------------------ shutdown
\* Shutdown signals the reader: ShutdownC is closed and every pending request
\* is resolved with a terminal error
ShutdownSignal ==
    /\ ~shutdownC
    /\ \E r \in Readers : rpc[r] # "idle"
    /\ shutdownC' = TRUE
    /\ cpc' = [c \in Callers |-> IF cpc[c] = "waiting" THEN "done" ELSE cpc[c]]
    /\ cres' = [c \in Callers |->
                   IF cpc[c] = "waiting" THEN [kind |-> "terminal"] ELSE cres[c]]
    /\ UNCHANGED <<configVars, connVars, readerVars, wg, joined, chanVars,
                   consuming, cid, wire, nextId, ndeliv, dropped>>

\* Shutdown's Wg.Wait() returns: the counter is zero
ShutdownWait ==
    /\ shutdownC
    /\ ~joined
    /\ wg = 0
    /\ joined' = TRUE
    /\ UNCHANGED <<configVars, connVars, readerVars, wg, shutdownC, chanVars,
                   consuming, callerVars, dropped>>

\* ------------------------------------------------------------------ callers
\* An authenticated command called without authenticated websocket support
CommandNotAuthenticated(c) ==
    /\ cpc[c] = "idle"
    /\ AuthRefused(authEnabled)
    /\ cpc' = [cpc EXCEPT ![c] = "done"]
    /\ cres' = [cres EXCEPT ![c] = [kind |-> "notEnabled"]]
    /\ UNCHANGED <<configVars, connVars, readerVars, wg, shutdownC, joined,
                   chanVars, consuming, cid, wire, nextId, ndeliv, dropped>>

\* An authenticated command up to the wait inside SendMessageReturnResponse:
\* GenerateMessageID, wsGenerateSignature, then the request is registered
\* under its id and written; a failed write returns the error at once
CommandSend(c) ==
    /\ cpc[c] = "idle"
    /\ ~AuthRefused(authEnabled)
    /\ \E written \in BOOLEAN :
        LET request == SignedRequest(CommandOf(c), "key", "secret", nextId)
        IN /\ written => (\E r \in Readers : rpc[r] # "idle") /\ ~shutdownC
           /\ IF written
              THEN /\ cpc' = [cpc EXCEPT ![c] = "waiting"]
                   /\ cid' = [cid EXCEPT ![c] = WaitId(request)]
                   /\ wire' = [wire EXCEPT ![c] = request]
                   /\ cres' = cres
              ELSE /\ cpc' = [cpc EXCEPT ![c] = "done"]
                   /\ cres' = [cres EXCEPT ![c] = [kind |-> "sendErr"]]
                   /\ UNCHANGED <<cid, wire>>
    /\ nextId' = nextId + 1
    /\ UNCHANGED <<configVars, connVars, readerVars, wg, shutdownC, joined,
                   chanVars, consuming, ndeliv, dropped>>

\* The wait inside SendMessageReturnResponse times out: the pending entry is
\* removed and the command returns a timeout error
CommandTimeout(c) ==
    /\ cpc[c] = "waiting"
    /\ cpc' = [cpc EXCEPT ![c] = "done"]
    /\ cres' = [cres EXCEPT ![c] = [kind |-> "timeout"]]
    /\ UNCHANGED <<configVars, connVars, readerVars, wg, shutdownC, joined,
                   chanVars, consuming, cid, wire, nextId, ndeliv, dropped>>

\* the value a call z.wsGenerateSignature(request) returns in the current
\* state, with secret in z.API.Credentials.Secret
SignatureSaltedByState(request, secret) ==
    wsGenerateSignature(request, <<secret, nreads>>)
SignatureReturned(request, secret) == wsGenerateSignature(request, secret)

\* A caller that is in no command calls wsGenerateSignature on a request and
\* keeps what it got
CallSign(c) ==
    /\ cpc[c] = "idle"
    /\ \E request \in UnsignedRequests, secret \in Secrets :
          wire' = [wire EXCEPT ![c] =
                      [kind |-> "signed", request |-> request, secret |-> secret,
                       Sign |-> SignatureReturned(request, secret)]]
    /\ UNCHANGED <<configVars, connVars, readerVars, wg, shutdownC, joined,
                   chanVars, consuming, cpc, cid, cres, nextId, ndeliv, dropped>>

\* wsSubmitOrder up to the wait inside SendMessageReturnResponse: the request
\* is built and signed and handed to SendMessageReturnResponse, which writes
\* it if it can be serialized and the connection is up, and returns an error
\* otherwise. cres keeps the request handed over.
wsSubmitOrder(c) ==
    /\ cpc[c] = "idle"
    /\ ~AuthRefused(authEnabled)
    /\ \E amount \in {Num(1)}, price \in {Num(1), NaN}, up \in BOOLEAN :
        LET request == SignedOrder(amount, price, "key", "secret", nextId)
            written == up /\ Serializable(request)
        IN /\ up => (\E r \in Readers : rpc[r] # "idle") /\ ~shutdownC
           /\ cpc' = [cpc EXCEPT ![c] = IF written THEN "waiting" ELSE "done"]
           /\ cid' = [cid EXCEPT ![c] = IF written THEN WaitId(request) ELSE @]
           /\ wire' = [wire EXCEPT ![c] = IF written THEN request ELSE @]
           /\ cres' = [cres EXCEPT ![c] =
                          [kind |-> IF written THEN "sent" ELSE "sendErr",
                           request |-> request]]
    /\ nextId' = nextId + 1
    /\ UNCHANGED <<configVars, connVars, readerVars, wg, shutdownC, joined,
                   chanVars, consuming, ndeliv, dropped>>

\* ------------------------------------------------------------------ specification
WsConnect == WsConnectNotEnabled \/ WsConnectDialFails \/ WsConnectOk

Reader == \E r \in Readers : ReaderStep(r)

\* the transport delivers a frame or fails
Transport == \E r \in Readers : ReaderReadFrame(r) \/ ReaderReadFails(r)

Consumer == ConsumeData \/ ConsumeAlert \/ ConsumeReadError

Shutdown == ShutdownSignal \/ ShutdownWait

Commands ==
    \E c \in Callers :
        CommandNotAuthenticated(c) \/ CommandSend(c) \/ CommandTimeout(c)

\* Connection lifecycle and reader loop: WsConnect, the readers, the channels
\* and their consumer, shutdown. No authenticated command is issued.
InitLoop ==
    /\ wsEnabled \in BOOLEAN
    /\ exEnabled \in BOOLEAN
    /\ authEnabled = FALSE
    /\ enabledPairs = <<BTCUSD, ETHUSD>>
    /\ inbound = StreamFrames \cup {Frame(TRUE, 1, 1000, <<>>, TRUE, <<>>, <<>>, <<>>)}
    /\ Constructed
    /\ raw = <<>>
    /\ venue = {}
    /\ kreq = None

NextLoop ==
    /\ ~Crashed
    /\ (WsConnect \/ Reader \/ Transport \/ Consumer \/ ConsumerStops \/ Shutdown)
    /\ UNCHANGED <<histVars, repairVars, klineVars>>

SpecLoop == InitLoop /\ [][NextLoop]_vars

\* Authenticated commands against the reader loop: callers, replies, timeouts,
\* read failure and shutdown.
InitCalls ==
    /\ wsEnabled = TRUE
    /\ exEnabled = TRUE
    /\ authEnabled \in BOOLEAN
    /\ enabledPairs = <<BTCUSD, ETHUSD>>
    /\ inbound = ReplyFrames \cup {Frame(TRUE, 0, 0, ChTicker, TRUE, <<>>, <<>>, <<>>)}
    /\ Constructed
    /\ raw = <<>>
    /\ venue = {}
    /\ kreq = None

\* One connection lifetime: WsConnect is called until a Dial has been made.
NextCalls ==
    /\ ~Crashed
    /\ \/ WsConnect /\ ~dialed
       \/ Reader \/ Transport \/ Consumer \/ Shutdown \/ Commands
    /\ UNCHANGED <<histVars, repairVars, klineVars>>

SpecCalls == InitCalls /\ [][NextCalls]_vars

\* The scheduler runs every goroutine that can take a step, timers fire, and a
\* consumer that has not stopped keeps receiving. Nothing obliges the venue to
\* send a frame or the transport to fail: Transport has no fairness.
FairLoop ==
    /\ SpecLoop
    /\ \A r \in Readers : WF_vars(ReaderStep(r) /\ UNCHANGED <<histVars, repairVars, klineVars>>)
    /\ WF_vars(Consumer /\ UNCHANGED <<histVars, repairVars, klineVars>>)
    /\ WF_vars(ShutdownWait /\ UNCHANGED <<histVars, repairVars, klineVars>>)

\* The reader loop traced frame by frame: each frame read gets its receipt
\* number, and what the loop sends or resolves for it is recorded.
TracedReadFrame(r) ==
    /\ ReaderReadFrame(r)
    /\ held' = [held EXCEPT ![r] = [NotHeld EXCEPT !.seq = nreads + 1]]
    /\ log' = log
    /\ UNCHANGED <<repairVars, klineVars>>

TracedReadFails(r) ==
    /\ ReaderReadFails(r)
    /\ held' = [held EXCEPT ![r] = [NotHeld EXCEPT !.seq = nreads + 1]]
    /\ log' = log
    /\ UNCHANGED <<repairVars, klineVars>>

TracedAlert(r) ==
    \E f \in inbound :
        /\ ReaderAlertOn(r, f)
        /\ held' = [held EXCEPT ![r].frame = f]
        /\ log' = IF Dispatch(f).kind = "resolve" THEN Append(log, held[r].seq) ELSE log
        /\ UNCHANGED <<repairVars, klineVars>>

TracedEmit(r) ==
    /\ ReaderEmit(r)
    /\ held' = [held EXCEPT ![r].sent = Append(@, cur[r])]
    /\ log' = Append(log, held[r].seq)
    /\ UNCHANGED <<repairVars, klineVars>>

TracedReader ==
    \E r \in Readers :
        \/ TracedReadFrame(r) \/ TracedReadFails(r) \/ TracedAlert(r) \/ TracedEmit(r)
        \/ (ReaderRegister(r) \/ ReaderSelect(r) \/ ReaderReportErr(r))
               /\ UNCHANGED <<histVars, repairVars, klineVars>>

InitFrames ==
    /\ wsEnabled = TRUE
    /\ exEnabled = TRUE
    /\ authEnabled = FALSE
    /\ enabledPairs = <<BTCUSD, ETHUSD>>
    /\ inbound = StreamFrames \cup TopicFrames
                     \cup {Frame(TRUE, 1, 1000, <<>>, TRUE, <<>>, <<>>, <<>>)}
    /\ Constructed
    /\ raw = <<>>
    /\ venue = {}
    /\ kreq = None

\* One connection lifetime: WsConnect is called until a Dial has been made.
NextFrames ==
    /\ ~Crashed
    /\ \/ WsConnectOk /\ ~dialed /\ UNCHANGED <<histVars, repairVars, klineVars>>
       \/ TracedReader
       \/ Consumer /\ UNCHANGED <<histVars, repairVars, klineVars>>

SpecFrames == InitFrames /\ [][NextFrames]_vars

\* Receipt order: WsConnect may be called again, and every reader loop it
\* starts is traced.
InitOrder ==
    /\ wsEnabled = TRUE
    /\ exEnabled = TRUE
    /\ authEnabled = FALSE
    /\ enabledPairs = <<BTCUSD, ETHUSD>>
    /\ inbound = {Frame(TRUE, 0, 0, ChTicker, TRUE, <<>>, <<>>, <<>>),
                   Frame(TRUE, 0, 0, ChOther, TRUE, <<>>, <<>>, <<>>),
                   Frame(TRUE, 1, 1000, <<>>, TRUE, <<>>, <<>>, <<>>)}
    /\ Constructed
    /\ raw = <<>>
    /\ venue = {}
    /\ kreq = None

NextOrder ==
    /\ ~Crashed
    /\ \/ WsConnectOk /\ UNCHANGED <<histVars, repairVars, klineVars>>
       \/ TracedReader
       \/ Consumer /\ UNCHANGED <<histVars, repairVars, klineVars>>

SpecOrder == InitOrder /\ [][NextOrder]_vars

\* Status codes: authenticated commands against the traced reader loop, over
\* one connection lifetime, with replies and stream frames of every kind of
\* status code.
InitCodes ==
    /\ wsEnabled = TRUE
    /\ exEnabled = TRUE
    /\ authEnabled = TRUE
    /\ enabledPairs = <<BTCUSD, ETHUSD>>
    /\ inbound = CodedReplyFrames \cup CodedStreamFrames
    /\ Constructed
    /\ raw = <<>>
    /\ venue = {}
    /\ kreq = None

NextCodes ==
    /\ ~Crashed
    /\ \/ WsConnectOk /\ ~dialed /\ UNCHANGED <<histVars, repairVars, klineVars>>
       \/ TracedReader
       \/ Consumer /\ UNCHANGED <<histVars, repairVars, klineVars>>
       \/ (\E c \in Callers : CommandSend(c)) /\ UNCHANGED <<histVars, repairVars, klineVars>>

SpecCodes == InitCodes /\ [][NextCodes]_vars

\* Classification: replies and stream frames that carry ids, codes and
\* channels together arrive while commands wait for their replies.
InitClassify ==
    /\ wsEnabled = TRUE
    /\ exEnabled = TRUE
    /\ authEnabled = TRUE
    /\ enabledPairs = <<BTCUSD, ETHUSD>>
    /\ inbound = PrecedenceFrames
    /\ Constructed
    /\ raw = <<>>
    /\ venue = {}
    /\ kreq = None

SpecClassify == InitClassify /\ [][NextCodes]_vars

\* Subscriptions: the connection lifecycle over every list of enabled pairs.
InitSubs ==
    /\ wsEnabled = TRUE
    /\ exEnabled = TRUE
    /\ authEnabled = FALSE
    /\ enabledPairs \in PairLists
    /\ inbound = {Frame(TRUE, 0, 0, ChTicker, TRUE, <<>>, <<>>, <<>>)}
    /\ Constructed
    /\ raw = <<>>
    /\ venue = {}
    /\ kreq = None

NextSubs ==
    /\ ~Crashed
    /\ (WsConnectDialFails \/ WsConnectOk \/ Reader \/ Transport \/ Consumer \/ Shutdown)
    /\ UNCHANGED <<histVars, repairVars, klineVars>>

SpecSubs == InitSubs /\ [][NextSubs]_vars

\* Signing: callers sign requests while the connection and its reader loop
\* run.
InitSign ==
    /\ wsEnabled = TRUE
    /\ exEnabled = TRUE
    /\ authEnabled = TRUE
    /\ enabledPairs = <<BTCUSD, ETHUSD>>
    /\ inbound = {Frame(TRUE, 0, 0, ChTicker, TRUE, <<>>, <<>>, <<>>)}
    /\ Constructed
    /\ raw = <<>>
    /\ venue = {}
    /\ kreq = None

NextSign ==
    /\ ~Crashed
    /\ \/ WsConnectOk /\ ~dialed
       \/ Reader \/ Transport \/ Consumer
       \/ \E c \in Callers : CallSign(c)
    /\ UNCHANGED <<histVars, repairVars, klineVars>>

SpecSign == InitSign /\ [][NextSign]_vars

\* Orders: callers submit orders, some of which cannot be serialized, while
\* the connection and its reader loop run.
NextSubmit ==
    /\ ~Crashed
    /\ \/ WsConnectOk /\ ~dialed
       \/ Reader \/ Transport \/ Consumer
       \/ \E c \in Callers : wsSubmitOrder(c)
    /\ UNCHANGED <<histVars, repairVars, klineVars>>

SpecSubmit == InitSign /\ [][NextSubmit]_vars

\* Signed commands: callers issue the plain commands and submit orders while
\* the connection and its reader loop run.
NextSigned ==
    /\ ~Crashed
    /\ \/ WsConnectOk /\ ~dialed
       \/ Reader \/ Transport \/ Consumer
       \/ \E c \in Callers : CommandSend(c) \/ wsSubmitOrder(c)
    /\ UNCHANGED <<histVars, repairVars, klineVars>>

SpecSigned == InitSign /\ [][NextSigned]_vars

\* Repair: one frame of any bytes is read and handed to wsFixInvalidJSON,
\* as the reader loop does before it parses the frame.
FixFrame ==
    /\ ~repaired.done
    /\ repaired' = [done |-> TRUE, json |-> wsFixInvalidJSON(raw)]
    /\ UNCHANGED <<configVars, connVars, readerVars, chanVars, callerVars, wg,
                   shutdownC, joined, consuming, dropped, histVars, raw, klineVars>>

InitRepair ==
    /\ wsEnabled = TRUE
    /\ exEnabled = TRUE
    /\ authEnabled = FALSE
    /\ enabledPairs = <<BTCUSD, ETHUSD>>
    /\ inbound = {}
    /\ Constructed
    /\ raw \in RawFrames
    /\ venue = {}
    /\ kreq = None

NextRepair == FixFrame

SpecRepair == InitRepair /\ [][NextRepair]_vars

\* Klines: GetKlines is called once on WEX or LocalBitcoins for a kline that
\* may or may not exist at the exchange.
GetKlinesCall ==
    /\ ~kret.done
    /\ kret' = [done |-> TRUE,
                klines |-> IF kreq.b = "WEX" THEN WEXGetKlines(kreq.arg).klines
                           ELSE LocalBitcoinsGetKlines(kreq.arg).klines,
                err |-> IF kreq.b = "WEX" THEN WEXGetKlines(kreq.arg).err
                        ELSE LocalBitcoinsGetKlines(kreq.arg).err]
    /\ UNCHANGED <<configVars, connVars, readerVars, chanVars, callerVars, wg,
                   shutdownC, joined, consuming, dropped, histVars, repairVars,
                   venue, kreq>>

InitKlines ==
    /\ wsEnabled = TRUE
    /\ exEnabled = TRUE
    /\ authEnabled = FALSE
    /\ enabledPairs = <<BTCUSD, ETHUSD>>
    /\ inbound = {}
    /\ Constructed
    /\ raw = <<>>
    /\ venue \in SUBSET Klines
    /\ kreq \in [b : Exchanges, arg : Klines]

NextKlines == GetKlinesCall

SpecKlines == InitKlines /\ [][NextKlines]_vars

\* ------------------------------------------------------------------ properties
\* the reader takes a step
Moves(r) == rpc'[r] # rpc[r]

\* a send of reader r that cannot complete: the channel is full
BlockedOnSend(r) ==
    \/ rpc[r] = "alert" /\ trafficAlert = ChanCap
    \/ rpc[r] = "emit" /\ dataHandler = ChanCap
    \/ rpc[r] = "reportErr" /\ readMessageErrors = ChanCap

FailsToParse(f) == ~f.valid
HasErrorCode(f) == f.valid /\ f.No <= 0 /\ CodeIsError(f.Code)
IsStream(f) == f.valid /\ f.No <= 0 /\ ~CodeIsError(f.Code)
Unmatched(f) ==
    /\ IsStream(f)
    /\ \A k \in {K_markets, K_ticker, K_depth, K_trades} : ~Contains(f.Channel, k)
DepthLoadFails(f) ==
    /\ IsStream(f)
    /\ Dispatch(f).kind = "load"
    /\ LoadSnapshotFails(Dispatch(f).ob)

FrameErrorMessages ==
    {"unmarshal", "request failed", "unhandled websocket response", "snapshot"}

\* C2: an error local to one frame never terminates the reader loop. Each such
\* frame leads to an error value for DataHandler (never to a return or a
\* panic), and once the error is sent the loop is back at its select, from
\* where, unless shutdown was signalled, it reads the next frame.
C2_FrameErrorsKeepLoopRunning ==
    /\ [](\A f \in inbound :
            /\ (FailsToParse(f) \/ HasErrorCode(f) \/ Unmatched(f)) =>
                   /\ Dispatch(f).kind = "emit"
                   /\ Dispatch(f).ev.kind = "error"
            /\ DepthLoadFails(f) => Dispatch(f).kind = "load")
    /\ [][\A r \in Readers :
            /\ (rpc[r] = "emit" /\ cur[r].kind = "error" /\ Moves(r)) =>
                   /\ cur[r].msg \in FrameErrorMessages
                   /\ rpc'[r] = "select"
                   /\ frameErrors' = frameErrors + 1
            /\ (rpc[r] = "alert" /\ Moves(r) /\ book' # book) =>
                   rpc'[r] = "emit" /\ cur'[r].kind = "orderbook"
            /\ (rpc[r] = "alert" /\ Moves(r) /\ cur'[r] = ErrorEvent("snapshot")) =>
                   rpc'[r] = "emit" /\ book' = book
            /\ (rpc[r] = "select" /\ ~shutdownC /\ Moves(r)) => rpc'[r] = "read"]_vars

\* one reader has sent MaxFrames - 1 frame errors and is reading again
C2_Witness ==
    /\ \A r \in Readers : r # 1 => rpc[r] = "idle"
    /\ rpc[1] = "read"
    /\ frameErrors >= 1
    /\ frameErrors = nreads

\* a caller's command has returned the reply frame
GotReply(c) == cres[c].kind = "reply"

\* C3: the id written in a command's frame is the id its caller waits on; a
\* reply is handed only to the waiting caller whose id it carries, at most
\* once per caller, and leaves every other caller as it was; no reply for
\* the id of a waiting caller is ever dropped.
C3_ReplyReachesItsCallerOnce ==
    /\ [](\A c \in Callers :
            /\ wire[c] # None => wire[c].No = cid[c]
            /\ ndeliv[c] <= 1
            /\ GotReply(c) <=> ndeliv[c] = 1
            /\ GotReply(c) => cres[c].frame.No = cid[c] /\ cres[c].frame.No = wire[c].No
            /\ \A d \in Callers : (c # d /\ cid[c] # 0) => cid[c] # cid[d])
    /\ [][\A c \in Callers :
            /\ ndeliv'[c] # ndeliv[c] =>
                   /\ cpc[c] = "waiting"
                   /\ cres'[c].frame.No = cid[c]
                   /\ \A d \in Callers \ {c} :
                          /\ cres'[d] = cres[d]
                          /\ cpc'[d] = cpc[d]
                          /\ ndeliv'[d] = ndeliv[d]
            /\ cpc[c] = "waiting" => (\A e \in dropped' \ dropped : e[1] # cid[c])]_vars

\* two callers with distinct ids have each received their own reply
C3_Witness ==
    \E c, d \in Callers :
        /\ c # d
        /\ GotReply(c)
        /\ GotReply(d)
        /\ cres[c].frame.No = cid[c]
        /\ cres[d].frame.No = cid[d]

\* C4: a caller whose wait timed out keeps its timeout error; a reply that
\* arrives for its id afterwards changes no caller, puts nothing on
\* DataHandler and leaves the reader loop at its select, and no other
\* caller ever receives a reply carrying that id.
C4_LateReplyIsNoOp ==
    /\ [](\A c, d \in Callers :
            (cres[c].kind = "timeout" /\ GotReply(d)) => cres[d].frame.No # cid[c])
    /\ [][(\A c \in Callers :
              cres[c].kind = "timeout" =>
                  cres'[c] = cres[c] /\ cpc'[c] = "done" /\ ndeliv'[c] = 0)
          /\ ((\E e \in dropped' \ dropped : e[2] = "late") =>
                  /\ UNCHANGED callerVars
                  /\ dataHandler' = dataHandler
                  /\ readMessageErrors' = readMessageErrors
                  /\ \A r \in Readers :
                         Moves(r) => rpc'[r] = "select" /\ cur'[r] = None)]_vars

\* a reply came after its caller timed out, and a later caller got its own
C4_Witness ==
    \E c, d \in Callers :
        /\ cres[c].kind = "timeout"
        /\ <<cid[c], "late">> \in dropped
        /\ cid[d] > cid[c]
        /\ GotReply(d)
        /\ \E r \in Readers : rpc[r] \in Running

\* C5: when a reader loop ends, on shutdown or on a read failure, no caller
\* of an authenticated command is left waiting.
C5_PendingResolvedWhenReaderEnds ==
    [][\A r \in Readers :
          (rpc[r] \in Running /\ rpc'[r] \in {"failed", "stopped"}) =>
              \A c \in Callers : cpc'[c] # "waiting"]_vars

\* C6: at most one reader loop runs at any time.
C6_AtMostOneReaderLoop ==
    Cardinality({r \in Readers : rpc[r] \in Running}) <= 1

\* C7: a WsConnect that returns an error starts no reader loop and queues no
\* subscription; with the websocket or the exchange not enabled nothing is
\* ever dialed, started or queued.
C7_FailedConnectStartsNothing ==
    /\ []((~wsEnabled \/ ~exEnabled) =>
            /\ ~dialed
            /\ connRet \in {"none", "notEnabled"}
            /\ \A r \in Readers : rpc[r] = "idle"
            /\ channelsToSubscribe = <<>>)
    /\ [][(connRet' \in {"notEnabled", "dialErr"}
              /\ (connRet' # connRet \/ dialed' # dialed)) =>
            /\ rpc' = rpc
            /\ wg' = wg
            /\ channelsToSubscribe' = channelsToSubscribe
            /\ (connRet' = "notEnabled" => dialed' = dialed)]_vars

\* the first WsConnect failed in Dial: nothing runs, nothing is queued
C7_Witness ==
    /\ connRet = "dialErr"
    /\ dialed
    /\ \A r \in Readers : rpc[r] = "idle"
    /\ channelsToSubscribe = <<>>

\* C8: once shutdown is signalled, every reader loop eventually stops, also
\* when no further frame and no read error arrives (the arrival of frames is
\* not fair). A reader loop stuck on a send behind a stopped consumer is the
\* case of C10 and is not counted here.
C8_ShutdownStopsReader ==
    shutdownC ~> (\A r \in Readers :
                     rpc[r] \notin Running \/ (BlockedOnSend(r) /\ ~consuming))

\* C9: when the shutdown's Wg.Wait() has returned, every reader loop a
\* WsConnect started has terminated.
C9_WaitReturnsAfterReaders ==
    joined => \A r \in Readers : rpc[r] \notin Running

\* C10: no send of the reader loop is stuck behind a full channel whose
\* consumer has stopped.
C10_ReaderNeverBlockedOnSend ==
    \A r \in Readers : ~(BlockedOnSend(r) /\ ~consuming)

\* C11: frames are dispatched in receipt order: whatever is emitted or
\* resolved for a frame comes before anything emitted or resolved for a frame
\* read after it.
C11_DispatchInReceiptOrder ==
    \A i, j \in 1..Len(log) : i < j => log[i] <= log[j]

Handled(r) == rpc[r] \in {"select", "read", "stopped"} /\ held[r].frame # None

\* C13: every stream event (a parsed frame with no correlation id and no
\* error code) yields exactly one value on DataHandler: once the loop is done
\* with such a frame it has sent one value for it, never none and never two.
C13_OneEventPerStreamEvent ==
    \A r \in Readers :
        (Handled(r) /\ IsStream(held[r].frame)) => Len(held[r].sent) = 1

\* C14: the handler of a stream event is chosen by the first of the
\* substrings markets, ticker, depth, trades that the channel contains: what
\* the loop is about to send for a frame that parses is the value of that
\* handler (nothing for markets), and for a channel containing none of them
\* it is the unhandled-response error, which is sent and not dropped.
C14_HandlerByFirstMatchingTopic ==
    \A r \in Readers :
        LET f == held[r].frame
            ch == f.Channel
            m == Contains(ch, <<"m", "a", "r", "k", "e", "t", "s">>)
            t == Contains(ch, <<"t", "i", "c", "k", "e", "r">>)
            d == Contains(ch, <<"d", "e", "p", "t", "h">>)
            tr == Contains(ch, <<"t", "r", "a", "d", "e", "s">>)
            unhandled == ErrorEvent("unhandled websocket response")
        IN (f # None /\ IsStream(f) /\ f.typed) =>
            /\ rpc[r] = "emit" =>
                  /\ ~m
                  /\ t => cur[r].kind = "ticker"
                  /\ (~t /\ d) => (cur[r].kind = "orderbook"
                                       \/ cur[r] = ErrorEvent("snapshot"))
                  /\ (~t /\ ~d /\ tr) => cur[r].kind = "trade"
                  /\ (~t /\ ~d /\ ~tr) => cur[r] = unhandled
            /\ Handled(r) =>
                  /\ m => held[r].sent = <<>>
                  /\ (~m /\ t) => (Len(held[r].sent) = 1
                                       /\ held[r].sent[1].kind = "ticker")
                  /\ (~m /\ ~t /\ ~d /\ ~tr) => held[r].sent = <<unhandled>>

\* a channel containing both depth and ticker went to the ticker handler
\* after a frame whose error was sent
C14_Witness ==
    \E r \in Readers :
        /\ Handled(r)
        /\ held[r].frame.Channel = ChDepthTicker
        /\ Len(held[r].sent) = 1
        /\ held[r].sent[1].kind = "ticker"
        /\ held[r].seq > 1
        /\ frameErrors > 0

\* C15: a trades frame with a batch of n >= 1 trades yields one trade event,
\* with the price, amount and side of the last trade of the batch, and
\* nothing for the trades before it.
C15_TradeBatchYieldsLastTrade ==
    \A r \in Readers :
        LET f == held[r].frame
            n == Len(f.Trades)
        IN (Handled(r) /\ IsStream(f) /\ f.typed /\ f.Channel = ChTrades /\ n >= 1) =>
              held[r].sent = <<[kind |-> "trade", Pair |-> PairBtc,
                                Price |-> f.Trades[n].Price,
                                Amount |-> f.Trades[n].Amount,
                                Side |-> f.Trades[n].TradeType]>>

\* a batch of three trades has been handled: one event, of the third trade
C15_Witness ==
    \E r \in Readers :
        /\ Handled(r)
        /\ held[r].frame.Channel = ChTrades
        /\ Len(held[r].frame.Trades) = 3
        /\ Len(held[r].sent) = 1
        /\ held[r].sent[1].Price = 3
        /\ held[r].sent[1].Side = "buy"

\* a depth frame the loop can build a book from: it goes to the depth handler
\* and every level is a pair of numbers
IsDepth(f) ==
    /\ f # None
    /\ IsStream(f)
    /\ f.typed
    /\ Topic(f.Channel) = K_depth
    /\ LevelsAreNumbers(f.Asks)
    /\ LevelsAreNumbers(f.Bids)

\* the same price twice among the wire levels of one side
RepeatsPrice(levels) ==
    \E i, j \in 1..Len(levels) : i # j /\ levels[i][1].val = levels[j][1].val

\* the book the loop builds from a depth frame
BookOf(f) ==
    [Pair |-> SplitFirst(f.Channel), AssetType |-> "spot",
     Asks |-> Items(f.Asks), Bids |-> Items(f.Bids)]

OrderbookUpdate(f) ==
    [kind |-> "orderbook", Pair |-> SplitFirst(f.Channel), Asset |-> "spot"]

\* C16: for a depth frame whose snapshot loads, exactly one orderbook update
\* naming the frame's pair and the spot asset class is sent, and the book
\* already holds the snapshot when the loop comes to hold the update (the send
\* is a later step that leaves the book alone); for a depth frame whose load
\* fails, the load error is sent and no update.
C16_UpdateAfterSuccessfulLoad ==
    /\ [](\A r \in Readers :
            LET f == held[r].frame
                failing == RepeatsPrice(f.Asks) \/ RepeatsPrice(f.Bids)
            IN IsDepth(f) =>
                /\ rpc[r] = "emit" =>
                      cur[r] = IF failing THEN ErrorEvent("snapshot")
                               ELSE OrderbookUpdate(f)
                /\ Handled(r) =>
                      held[r].sent = IF failing THEN <<ErrorEvent("snapshot")>>
                                     ELSE <<OrderbookUpdate(f)>>)
    /\ [][\A r \in Readers :
            /\ (rpc[r] = "alert" /\ rpc'[r] = "emit" /\ cur'[r].kind = "orderbook") =>
                  /\ cur'[r].Pair \in DOMAIN book'
                  /\ book'[cur'[r].Pair] = BookOf(held'[r].frame)
            /\ (rpc[r] = "emit" /\ Moves(r)) => book' = book]_vars

\* a depth frame was loaded and announced, after a frame whose error was
\* sent
C16_Witness ==
    \E r \in Readers :
        /\ Handled(r)
        /\ IsDepth(held[r].frame)
        /\ held[r].sent = <<OrderbookUpdate(held[r].frame)>>
        /\ book[PairBtc] = BookOf(held[r].frame)
        /\ held[r].seq > 1
        /\ frameErrors > 0

\* C17: loading a snapshot that repeats a price on one side is rejected with
\* an error and leaves every stored book as it was: in the step in which the
\* loop loads such a frame the book does not change and the loop comes to
\* hold the load error.
C17_RepeatedPriceRejected ==
    [][\A r \in Readers :
          LET f == held'[r].frame
          IN (rpc[r] = "alert" /\ Moves(r) /\ IsDepth(f)
                 /\ (RepeatsPrice(f.Asks) \/ RepeatsPrice(f.Bids))) =>
                /\ book' = book
                /\ rpc'[r] = "emit"
                /\ cur'[r] = ErrorEvent("snapshot")]_vars

\* a snapshot repeating a price was rejected while the book of its pair holds
\* the snapshot loaded before it
C17_Witness ==
    \E q \in Readers :
        /\ Handled(q)
        /\ IsDepth(held[q].frame)
        /\ RepeatsPrice(held[q].frame.Bids)
        /\ held[q].sent = <<ErrorEvent("snapshot")>>
        /\ PairBtc \in DOMAIN book
        /\ book[PairBtc].Asks # <<>>
        /\ book[PairBtc] # BookOf(held[q].frame)

\* the instruments of a list of pairs, as lower-case undelimited strings
Instruments(pairs) ==
    { LowerStr(pairs[i].Base) \o LowerStr(pairs[i].Quote) : i \in 1..Len(pairs) }

\* C18: the list GenerateDefaultSubscriptions builds and hands to
\* SubscribeToChannels has 1 + 3*N entries for the N distinct instruments of
\* the enabled pairs, and no two of its entries are the same (channel,
\* instrument) pair.
C18_DefaultSubscriptionsDistinct ==
    connRet = "ok" =>
        LET subs == DefaultSubscriptions(enabledPairs)
        IN /\ Len(subs) = 1 + 3 * Cardinality(Instruments(enabledPairs))
           /\ \A i, j \in 1..Len(subs) : i # j => subs[i] # subs[j]

\* what caller c last got from wsGenerateSignature
Signed(c) == cpc[c] = "idle" /\ wire[c].kind = "signed"

C20_SigningErrorReachesCaller ==
    \A c \in Callers :
        (cres[c].kind \in {"sent", "sendErr", "signingErr"}
            /\ ~Serializable(cres[c].request)) =>
           cres[c].kind = "signingErr"

\* C21: without authenticated websocket support every authenticated command
\* returns the not-enabled error before any network I/O: no message id is
\* generated, nothing is signed or written, and no request is pending.
C21_NotAuthenticatedBeforeAnyIO ==
    ~authEnabled =>
        /\ nextId = 1
        /\ \A c \in Callers :
              /\ wire[c] = None
              /\ cid[c] = 0
              /\ cpc[c] \in {"idle", "done"}
              /\ cpc[c] = "done" => cres[c] = [kind |-> "notEnabled"]
              /\ ndeliv[c] = 0

\* every caller was refused while the connection is up and frames were read
C21_Witness ==
    /\ ~authEnabled
    /\ \A c \in Callers : cpc[c] = "done" /\ cres[c].kind = "notEnabled"
    /\ \E r \in Readers : rpc[r] \in Running
    /\ nreads > 0

\* the pattern as words describe it: a quote followed by [ or {, later
\* followed by ] or } and a quote
DefectPattern(s) ==
    \E i \in 1..Len(s), j \in 1..Len(s) :
        /\ i + 2 <= j
        /\ j + 1 <= Len(s)
        /\ s[i] = Quote /\ s[i + 1] \in {"[", "{"}
        /\ s[j] \in {"]", "}"} /\ s[j + 1] = Quote

\* s without the bytes at positions i and j
Without(s, i, j) ==
    SubSeq(s, 1, i - 1) \o SubSeq(s, i + 1, j - 1) \o SubSeq(s, j + 1, Len(s))

\* C22: a frame that does not contain the quote-wrapping pattern is returned
\* unchanged by wsFixInvalidJSON.
C22_RepairIsIdentityWithoutPattern ==
    (repaired.done /\ ~DefectPattern(raw)) => repaired.json = raw

\* a frame of full length that opens like the pattern but never closes it
C22_Witness ==
    /\ repaired.done
    /\ ~DefectPattern(raw)
    /\ Len(raw) = MaxFrameLen
    /\ <<raw[1], raw[2]>> \in Openers
    /\ raw[MaxFrameLen] = Quote
    /\ repaired.json = raw

\* C23: for every frame that contains the pattern, wsFixInvalidJSON removes
\* exactly two bytes, the quote that opens the span and the quote that closes
\* it, and every other byte stays where it was.
C23_RepairRemovesTheTwoQuotes ==
    (repaired.done /\ DefectPattern(raw)) =>
        \E i \in 1..Len(raw), j \in 1..Len(raw) :
            /\ i + 3 <= j
            /\ raw[i] = Quote /\ raw[i + 1] \in {"[", "{"}
            /\ raw[j - 1] \in {"]", "}"} /\ raw[j] = Quote
            /\ repaired.json = Without(raw, i, j)

Filed(f) ==
    \/ \E c \in Callers : cres[c].kind = "reply" /\ cres[c].frame = f
    \/ \E d \in dropped : d[1] = f.No

\* C25: the reader loop classifies a frame by a fixed precedence with one
\* outcome: a frame that does not parse yields the unmarshal error and
\* nothing else; otherwise a frame with a correlation id above zero is handed
\* to the pending-request table and yields nothing on DataHandler, whatever
\* its code or channel; otherwise a frame with a code that is positive and
\* not 1000 yields the request-failed error and nothing else; only the
\* other frames are dispatched by channel, and none of them reaches the
\* pending-request table.
C25_ClassifiedByFixedPrecedence ==
    /\ \A d \in dropped : d[1] > 0
    /\ \A c \in Callers : cres[c].kind = "reply" =>
            (cres[c].frame.valid /\ cres[c].frame.No > 0)
    /\ \A r \in Readers :
          Handled(r) =>
            LET f == held[r].frame
                sent == held[r].sent
            IN  /\ ~f.valid => sent = <<ErrorEvent("unmarshal")>>
                /\ (f.valid /\ f.No > 0) => (sent = <<>> /\ Filed(f))
                /\ (f.valid /\ f.No <= 0 /\ f.Code > 0 /\ f.Code # 1000) =>
                       sent = <<ErrorEvent("request failed")>>
                /\ (f.valid /\ f.No <= 0 /\ ~(f.Code > 0 /\ f.Code # 1000)) =>
                       /\ Len(sent) <= 1
                       /\ sent # <<ErrorEvent("request failed")>>
                       /\ (Contains(f.Channel, K_ticker) /\ f.typed) =>
                              sent = <<[kind |-> "ticker",
                                        Pair |-> SplitFirst(f.Channel)]>>

\* the loop is done with a reply that carries an error code and a ticker
\* channel: a caller got it and nothing was sent on DataHandler for it
C25_Witness ==
    \E r \in Readers :
        /\ Handled(r)
        /\ held[r].frame = Frame(TRUE, 1, 1001, ChTicker, TRUE, <<>>, <<>>, <<>>)
        /\ held[r].sent = <<>>
        /\ \E c \in Callers : cres[c].kind = "reply" /\ cres[c].frame = held[r].frame
        /\ frameErrors > 0

\* C26: in every authenticated command the signature is computed last: what
\* is written carries the signature of that same request with its id, access
\* key, channel, event and own fields set and its sign field empty, the id
\* signed is the id the caller waits on, and nothing changes between signing
\* and writing.
C26_SignatureComputedLast ==
    \A c \in Callers :
        wire[c] # None =>
            LET request == wire[c]
            IN  /\ request.Sign =
                       wsGenerateSignature([request EXCEPT !.Sign = ""], "secret")
                /\ request.Sign # <<>>
                /\ request.No > 0
                /\ request.No = cid[c]
                /\ request.Event = "addChannel"
                /\ request.Accesskey = "key"
                /\ IF "Amount" \in DOMAIN request
                   THEN /\ request.Channel = PairBtc \o <<"_", "o", "r", "d", "e", "r">>
                        /\ request.Amount.isNum /\ request.Price.isNum
                   ELSE request.Channel = CommandOf(c)

\* one caller has written a plain command and the other an order, with
\* different ids
C26_Witness ==
    \E c, d \in Callers :
        /\ wire[c] # None /\ wire[d] # None
        /\ "Amount" \notin DOMAIN wire[c]
        /\ "Amount" \in DOMAIN wire[d]
        /\ wire[c].No # wire[d].No
        /\ wire[d].No > 1

====
